---- MODULE Spec2Model ----
(***************************************************************************)
(* A model of the tag-uri library: the parser of src/src/data.ts           *)
(* (TagUriParser and its regular expressions) and the TagUri facade of     *)
(* src/src/mod.ts (constructor, parse, get, the accessors, equals and the  *)
(* primitive-coercion hook).                                               *)
(*                                                                         *)
(* A string is a sequence of one-character strings, so that matching,      *)
(* splitting and concatenation are computed and not assumed.  A nullable   *)
(* string (string | null, or an unmatched group, undefined) is Null or     *)
(* Some(s).                                                                *)
(***************************************************************************)
EXTENDS Integers, Sequences, FiniteSets, TLC

VARIABLES pc, input, heap, internal, error, str, acc, other, held, prim

vars == <<pc, input, heap, internal, error, str, acc, other, held, prim>>

----------------------------------------------------------------------------
(* Nullable values and JavaScript truthiness of a nullable string.         *)

Null == <<>>

Some(s) == <<s>>

Val(x) == x[1]

\* if (x): null, undefined and the empty string are falsy
Truthy(x) == x # Null /\ Val(x) # <<>>

----------------------------------------------------------------------------
(* Character classes of the regular expressions.                           *)

Lower == {"a", "b", "c", "d", "e", "f", "g", "h", "i", "j", "k", "l", "m",
          "n", "o", "p", "q", "r", "s", "t", "u", "v", "w", "x", "y", "z"}

Upper == {"A", "B", "C", "D", "E", "F", "G", "H", "I", "J", "K", "L", "M",
          "N", "O", "P", "Q", "R", "S", "T", "U", "V", "W", "X", "Y", "Z"}

\* \d
Digit == {"0", "1", "2", "3", "4", "5", "6", "7", "8", "9"}

\* [a-zA-Z0-9]
AlphaNum == Lower \cup Upper \cup Digit

\* [0-9a-fA-F]
HexDigit == Digit \cup {"a", "b", "c", "d", "e", "f"}
                  \cup {"A", "B", "C", "D", "E", "F"}

\* a class of blanks that leaves the line breaks out, as [ \t] would
WhitespaceNoLineBreak == {" ", "\t"}

\* \s (the members a string literal of the model can hold); \S is the rest
Whitespace == {" ", "\t", "\n", "\r", "\f"}

\* the backtick, which a string literal of the model cannot hold
Backtick == "backtick"

\* [a-zA-Z0-9-._] of emailAddressRegex
LocalChar == AlphaNum \cup {"-", ".", "_"}

\* [a-zA-Z0-9-] of dnsNameRegex
LabelChar == AlphaNum \cup {"-"}

\* [a-zA-Z0-9-._~!$&'()*+,;=:@\/?] of specificRegex
PChar == AlphaNum \cup {"-", ".", "_", "~", "!", "$", "&", "'", "(", ")",
                         "*", "+", ",", ";", "=", ":", "@", "/", "?"}

----------------------------------------------------------------------------
(* Helpers on strings.                                                     *)

\* s[lo..hi] holds no character of S
NoneIn(s, lo, hi, S) == \A k \in lo..hi : s[k] \notin S

\* s[lo..hi] holds only characters of S
AllIn(s, lo, hi, S) == \A k \in lo..hi : s[k] \in S

\* String.prototype.includes for a single character
Includes(s, c) == \E k \in 1..Len(s) : s[k] = c

----------------------------------------------------------------------------
(* The regular expressions.  A match is the first one the backtracking     *)
(* matcher finds: greedy quantifiers try the longest repetition first, so  *)
(* among all ways to match the whole input it is the one that is greatest  *)
(* in the order of the quantifiers, left to right.                         *)

NoMatch == [matched |-> FALSE, groups |-> <<>>]

\* /^tag:(?<taggingEntity>[^:\s]*):(?<specific>[^#\s]*)(?:#?(?<fragment>\S*))`?$/
\* a way to match is <<i, j, h, k, b>>: the lengths of taggingEntity and
\* specific, whether #? takes a '#', the length of fragment, whether `? takes
\* a backtick
tagUriWays(s) ==
  LET n == Len(s)
  IN  IF n < 5 \/ SubSeq(s, 1, 4) # <<"t", "a", "g", ":">> THEN {}
      ELSE
        LET I == {i \in 0..(n - 5) :
                    /\ NoneIn(s, 5, 4 + i, {":"} \cup Whitespace)
                    /\ s[5 + i] = ":"}
        IN  UNION {
              UNION {
                UNION {
                  { <<i, j, h, n - (5 + i + j + h) - b, b>> :
                    b \in { b \in {0, 1} :
                              /\ n - (5 + i + j + h) - b >= 0
                              /\ b = 1 => s[n] = Backtick
                              /\ NoneIn(s, 6 + i + j + h, n - b, Whitespace) } }
                  : h \in { h \in {0, 1} :
                              h = 1 => /\ 6 + i + j <= n
                                       /\ s[6 + i + j] = "#" } }
                : j \in { j \in 0..(n - 5 - i) :
                            NoneIn(s, 6 + i, 5 + i + j, {"#"} \cup Whitespace) } }
              : i \in I }

\* the order in which the matcher tries the ways: longest first, left to right
Before(w, v) ==
  \/ w[1] > v[1]
  \/ w[1] = v[1] /\ w[2] > v[2]
  \/ w[1] = v[1] /\ w[2] = v[2] /\ w[3] > v[3]
  \/ w[1] = v[1] /\ w[2] = v[2] /\ w[3] = v[3] /\ w[4] > v[4]

tagUriRegex(s) ==
  LET W == tagUriWays(s)
  IN  IF W = {} THEN NoMatch
      ELSE LET w == CHOOSE w \in W : \A v \in W \ {w} : Before(w, v)
               p == 5 + w[1] + w[2] + w[3]
           IN  [matched |-> TRUE,
                groups  |-> [taggingEntity |-> SubSeq(s, 5, 4 + w[1]),
                             specific |-> SubSeq(s, 6 + w[1], 5 + w[1] + w[2]),
                             fragment |-> SubSeq(s, p + 1, p + w[4])]]

\* /^(?<authorityName>[\S]*),(?<date>[\S]*)$/
taggingEntityRegex(s) ==
  LET n == Len(s)
      I == {i \in 0..(n - 1) :
              /\ NoneIn(s, 1, i, Whitespace)
              /\ s[i + 1] = ","
              /\ NoneIn(s, i + 2, n, Whitespace)}
  IN  IF I = {} THEN NoMatch
      ELSE LET i == CHOOSE i \in I : \A k \in I : k <= i
           IN  [matched |-> TRUE,
                groups  |-> [authorityName |-> SubSeq(s, 1, i),
                             date |-> SubSeq(s, i + 2, n)]]

\* /^[a-zA-Z0-9-._]+@(?<domain>\S+)$/
emailAddressRegex(s) ==
  LET n == Len(s)
      I == {i \in 1..(n - 2) :
              /\ AllIn(s, 1, i, LocalChar)
              /\ s[i + 1] = "@"
              /\ NoneIn(s, i + 2, n, Whitespace)}
  IN  IF I = {} THEN NoMatch
      ELSE LET i == CHOOSE i \in I : \A k \in I : k <= i
           IN  [matched |-> TRUE,
                groups  |-> [domain |-> SubSeq(s, i + 2, n)]]

\* [a-zA-Z0-9]([a-zA-Z0-9-]*[a-zA-Z0-9]) matches s[lo..hi]: the inner group is
\* not optional, so a label has at least two characters
dnsLabel(s, lo, hi) ==
  /\ hi - lo + 1 >= 2
  /\ s[lo] \in AlphaNum
  /\ AllIn(s, lo + 1, hi - 1, LabelChar)
  /\ s[hi] \in AlphaNum

\* (label)(\.(label))*$ matches s from position lo on
RECURSIVE dnsLabelsFrom(_, _)
dnsLabelsFrom(s, lo) ==
  \E hi \in lo..Len(s) :
    /\ dnsLabel(s, lo, hi)
    /\ \/ hi = Len(s)
       \/ /\ hi < Len(s)
          /\ s[hi + 1] = "."
          /\ dnsLabelsFrom(s, hi + 2)

\* /^([a-zA-Z0-9]([a-zA-Z0-9-]*[a-zA-Z0-9]))(\.([a-zA-Z0-9]([a-zA-Z0-9-]*[a-zA-Z0-9])))*$/
\* only whether it matches is used
dnsNameRegex(s) == dnsLabelsFrom(s, 1)

\* /^(?<year>\d{4})(-(?<month>\d{2})(-(?<day>\d{2}))?)?$/
\* a group that takes no part in the match is undefined (Null)
dateRegex(s) ==
  LET n == Len(s)
      y == n >= 4 /\ AllIn(s, 1, 4, Digit)
      m == n >= 7 /\ s[5] = "-" /\ AllIn(s, 6, 7, Digit)
      d == n >= 10 /\ s[8] = "-" /\ AllIn(s, 9, 10, Digit)
  IN  IF y /\ n = 4
        THEN [matched |-> TRUE,
              groups |-> [year |-> Some(SubSeq(s, 1, 4)), month |-> Null,
                          day |-> Null]]
      ELSE IF y /\ m /\ n = 7
        THEN [matched |-> TRUE,
              groups |-> [year |-> Some(SubSeq(s, 1, 4)),
                          month |-> Some(SubSeq(s, 6, 7)), day |-> Null]]
      ELSE IF y /\ m /\ d /\ n = 10
        THEN [matched |-> TRUE,
              groups |-> [year |-> Some(SubSeq(s, 1, 4)),
                          month |-> Some(SubSeq(s, 6, 7)),
                          day |-> Some(SubSeq(s, 9, 10))]]
      ELSE NoMatch

\* ([a-zA-Z0-9-._~!$&'()*+,;=:@\/?]|(%[0-9a-fA-F]{2}))*$ matches s from lo on
RECURSIVE pcharsFrom(_, _)
pcharsFrom(s, lo) ==
  \/ lo > Len(s)
  \/ /\ lo <= Len(s)
     /\ s[lo] \in PChar
     /\ pcharsFrom(s, lo + 1)
  \/ /\ lo + 2 <= Len(s)
     /\ s[lo] = "%"
     /\ s[lo + 1] \in HexDigit
     /\ s[lo + 2] \in HexDigit
     /\ pcharsFrom(s, lo + 3)

\* the same with ':' left out of the character class
specificRegexNoColon(s) == pcharsFrom(s, 1) /\ ~Includes(s, ":")

\* /^([a-zA-Z0-9-._~!$&'()*+,;=:@\/?]|(%[0-9a-fA-F]{2}))*$/
specificRegex(s) == pcharsFrom(s, 1)

\* const fragmentRegex = specificRegex
fragmentRegex(s) == specificRegex(s)

----------------------------------------------------------------------------
(* Results of functions that may throw.                                    *)

Return(v) == [ok |-> TRUE, value |-> v, name |-> "", where |-> "",
              input |-> <<>>]

\* throw new TagUriParsingError(where, input)
TagUriParsingError(where, in) ==
  [ok |-> FALSE, value |-> <<>>, name |-> "TagUriParsingError",
   where |-> where, input |-> in]

\* throw new UnreachableError(...)
UnreachableError ==
  [ok |-> FALSE, value |-> <<>>, name |-> "UnreachableError", where |-> "",
   input |-> <<>>]

----------------------------------------------------------------------------
(* TagUriParser.                                                           *)

\* parseAuthorityName reporting the whole address for a malformed domain
parseAuthorityNameWholeAddress(in) ==
  IF Includes(in, "@")
    THEN LET emailAddressMatched == emailAddressRegex(in)
         IN  IF ~emailAddressMatched.matched
               THEN TagUriParsingError("emailAddress", in)
             ELSE IF ~dnsNameRegex(emailAddressMatched.groups.domain)
               THEN TagUriParsingError("emailAddress", in)
             ELSE Return([emailAddress |-> Some(in), dnsName |-> Null])
  ELSE IF ~dnsNameRegex(in)
    THEN TagUriParsingError("dnsName", in)
  ELSE Return([dnsName |-> Some(in), emailAddress |-> Null])

parseAuthorityName(in) ==
  IF Includes(in, "@")
    THEN LET emailAddressMatched == emailAddressRegex(in)
         IN  IF ~emailAddressMatched.matched
               THEN TagUriParsingError("emailAddress", in)
             ELSE LET domain == emailAddressMatched.groups.domain
                  IN  IF ~dnsNameRegex(domain)
                        THEN TagUriParsingError("emailAddress", domain)
                      ELSE Return([emailAddress |-> Some(in),
                                   dnsName |-> Null])
  ELSE IF ~dnsNameRegex(in)
    THEN TagUriParsingError("dnsName", in)
  ELSE Return([dnsName |-> Some(in), emailAddress |-> Null])

\* parseDate losing the month of a year-month date
parseDateMonthLost(in) ==
  LET dateMatched == dateRegex(in)
  IN  IF ~dateMatched.matched
        THEN TagUriParsingError("date", in)
      ELSE LET year == Val(dateMatched.groups.year)
               month == dateMatched.groups.month
               day == dateMatched.groups.day
           IN  IF Truthy(month) /\ Truthy(day)
                 THEN Return([year |-> year, month |-> month, day |-> day])
               ELSE Return([year |-> year, month |-> Null, day |-> Null])

\* parseDate reporting a mismatch with the kind year
parseDateYearKind(in) ==
  LET dateMatched == dateRegex(in)
  IN  IF ~dateMatched.matched
        THEN TagUriParsingError("year", in)
      ELSE LET year == Val(dateMatched.groups.year)
               month == dateMatched.groups.month
               day == dateMatched.groups.day
           IN  IF Truthy(month) /\ Truthy(day)
                 THEN Return([year |-> year, month |-> month, day |-> day])
               ELSE IF Truthy(month)
                 THEN Return([year |-> year, month |-> month, day |-> Null])
               ELSE Return([year |-> year, month |-> Null, day |-> Null])

parseDate(in) ==
  LET dateMatched == dateRegex(in)
  IN  IF ~dateMatched.matched
        THEN TagUriParsingError("date", in)
      ELSE LET year == Val(dateMatched.groups.year)
               month == dateMatched.groups.month
               day == dateMatched.groups.day
           IN  IF Truthy(month) /\ Truthy(day)
                 THEN Return([year |-> year, month |-> month, day |-> day])
               ELSE IF Truthy(month)
                 THEN Return([year |-> year, month |-> month, day |-> Null])
               ELSE Return([year |-> year, month |-> Null, day |-> Null])

parseSpecific(in) ==
  IF ~specificRegex(in)
    THEN TagUriParsingError("specific", in)
  ELSE Return(in)

parseFragment(in) ==
  IF Len(in) = 0 THEN Return(Null)
  ELSE IF ~fragmentRegex(in)
    THEN TagUriParsingError("fragment", in)
  ELSE Return(Some(in))

\* TagUriParser.parse with the date parsed before the authority name
TagUriParser_parseDateFirst(in) ==
  LET tagUriMatched == tagUriRegex(in)
  IN  IF ~tagUriMatched.matched
        THEN TagUriParsingError("tagUri", in)
      ELSE
        LET taggingEntityMatched ==
              taggingEntityRegex(tagUriMatched.groups.taggingEntity)
        IN  IF ~taggingEntityMatched.matched
              THEN TagUriParsingError("taggingEntity",
                                      tagUriMatched.groups.taggingEntity)
            ELSE
              LET an == parseAuthorityName(
                          taggingEntityMatched.groups.authorityName)
                  dt == parseDate(taggingEntityMatched.groups.date)
                  sp == parseSpecific(tagUriMatched.groups.specific)
                  fr == parseFragment(tagUriMatched.groups.fragment)
              IN  IF ~dt.ok THEN dt
                  ELSE IF ~an.ok THEN an
                  ELSE IF ~sp.ok THEN sp
                  ELSE IF ~fr.ok THEN fr
                  ELSE Return([authorityName |-> an.value,
                               date |-> dt.value,
                               specific |-> sp.value,
                               fragment |-> fr.value])

\* TagUriParser.parse: the fields of the returned object are evaluated in
\* order, and the first exception ends the call
TagUriParser_parse(in) ==
  LET tagUriMatched == tagUriRegex(in)
  IN  IF ~tagUriMatched.matched
        THEN TagUriParsingError("tagUri", in)
      ELSE
        LET taggingEntityMatched ==
              taggingEntityRegex(tagUriMatched.groups.taggingEntity)
        IN  IF ~taggingEntityMatched.matched
              THEN TagUriParsingError("taggingEntity",
                                      tagUriMatched.groups.taggingEntity)
            ELSE
              LET an == parseAuthorityName(
                          taggingEntityMatched.groups.authorityName)
                  dt == parseDate(taggingEntityMatched.groups.date)
                  sp == parseSpecific(tagUriMatched.groups.specific)
                  fr == parseFragment(tagUriMatched.groups.fragment)
              IN  IF ~an.ok THEN an
                  ELSE IF ~dt.ok THEN dt
                  ELSE IF ~sp.ok THEN sp
                  ELSE IF ~fr.ok THEN fr
                  ELSE Return([authorityName |-> an.value,
                               date |-> dt.value,
                               specific |-> sp.value,
                               fragment |-> fr.value])

----------------------------------------------------------------------------
(* TagUri: the accessors and get(), as functions of the internal data.     *)

\* the accessor without its emailAddress branch
authorityNameDnsOnly(data) ==
  IF Truthy(data.authorityName.dnsName)
    THEN Return(Val(data.authorityName.dnsName))
  ELSE UnreachableError

authorityName(data) ==
  IF Truthy(data.authorityName.dnsName)
    THEN Return(Val(data.authorityName.dnsName))
  ELSE IF Truthy(data.authorityName.emailAddress)
    THEN Return(Val(data.authorityName.emailAddress))
  ELSE UnreachableError

dnsName(data) == data.authorityName.dnsName

emailAddress(data) == data.authorityName.emailAddress

\* a template literal writes null as the text "null"
Interpolate(x) == IF x = Null THEN <<"n", "u", "l", "l">> ELSE Val(x)

date(data) ==
  IF Truthy(data.date.day)
    THEN data.date.year \o <<"-">> \o Interpolate(data.date.month)
                        \o <<"-">> \o Val(data.date.day)
  ELSE IF Truthy(data.date.month)
    THEN data.date.year \o <<"-">> \o Val(data.date.month)
  ELSE data.date.year

year(data) == data.date.year

month(data) == data.date.month

day(data) == data.date.day

taggingEntity(data) ==
  LET an == authorityName(data)
  IN  IF ~an.ok THEN an
      ELSE Return(an.value \o <<",">> \o date(data))

specific(data) == data.specific

fragment(data) == data.fragment

\* get() without the fragment
getWithoutFragment(data) ==
  LET te == taggingEntity(data)
  IN  IF ~te.ok THEN te
      ELSE Return(<<"t", "a", "g", ":">> \o te.value \o <<":">>
                    \o specific(data))

get(data) ==
  LET te == taggingEntity(data)
  IN  IF ~te.ok THEN te
      ELSE LET tag == <<"t", "a", "g", ":">> \o te.value \o <<":">>
                        \o specific(data)
           IN  IF Truthy(fragment(data))
                 THEN Return(tag \o <<"#">> \o Val(fragment(data)))
               ELSE Return(tag)

\* equals(a, b) of data.ts, the structural equality of two TagUriData
\* objects: the same dnsName, emailAddress, year, month, day, specific and
\* fragment
equals(a, b) ==
  /\ a.authorityName.dnsName = b.authorityName.dnsName
  /\ a.authorityName.emailAddress = b.authorityName.emailAddress
  /\ a.date.year = b.date.year
  /\ a.date.month = b.date.month
  /\ a.date.day = b.date.day
  /\ a.specific = b.specific
  /\ a.fragment = b.fragment

\* tag.equals(other): equals(this[internal], other[internal])
TagUri_equals(this, that) == equals(this, that)

----------------------------------------------------------------------------
(* The inputs given to the library.                                        *)

\* the strings over alphabet A of length at most n
Words(A, n) == UNION {[1..k -> A] : k \in 0..n}

\* "tag:" + authority + "," + date + ":" + tail
Tag(a, d, tail) ==
  <<"t", "a", "g", ":">> \o a \o <<",">> \o d \o <<":">> \o tail

MaxAuthLen == 4

MaxDateLen == 10

MaxTailLen == 4

MaxPad == 1

\* authority names: letters, hyphens, dots, underscores, commas and '@' in
\* every arrangement
AuthAlphabet == {"a", "-", ".", "_", "@", ","}

AuthTails == {<<>>, <<"x">>, <<"x", ":", "y">>}

AuthInputs ==
  {Tag(a, <<"2", "0", "0", "1">>, t) :
     a \in Words(AuthAlphabet, MaxAuthLen), t \in AuthTails}

\* dates: digits and hyphens in every arrangement
DateAlphabet == {"0", "-"}

DateInputs ==
  {Tag(<<"a", "b">>, d, <<"x">>) : d \in Words(DateAlphabet, MaxDateLen)}

\* what follows the second colon: pchars, percent signs, '#', ':' and the
\* backtick in every arrangement
TailAlphabet == {"A", "%", "#", ":", Backtick}

TailInputs ==
  {Tag(<<"a", "@", "a", "b">>, <<"2", "0", "0", "1", "-", "0", "9">>, t) :
     t \in Words(TailAlphabet, MaxTailLen)}

\* the inputs of src/src/mod.test.ts
TestInputs ==
  { \* tag:timothy@hpl.hp.com,2001:web/externalHome
    <<"t", "a", "g", ":", "t", "i", "m", "o", "t", "h", "y", "@", "h", "p", "l", ".", "h", "p", ".", "c", "o", "m", ",", "2", "0", "0", "1", ":", "w", "e", "b", "/", "e", "x", "t", "e", "r", "n", "a", "l", "H", "o", "m", "e">>,
    \* tag:sandro@w3.org,2004-05:Sandro
    <<"t", "a", "g", ":", "s", "a", "n", "d", "r", "o", "@", "w", "3", ".", "o", "r", "g", ",", "2", "0", "0", "4", "-", "0", "5", ":", "S", "a", "n", "d", "r", "o">>,
    \* tag:my-ids.com,2001-09-15:TimKindberg:presentations:UBath2004-05-19
    <<"t", "a", "g", ":", "m", "y", "-", "i", "d", "s", ".", "c", "o", "m", ",", "2", "0", "0", "1", "-", "0", "9", "-", "1", "5", ":", "T", "i", "m", "K", "i", "n", "d", "b", "e", "r", "g", ":", "p", "r", "e", "s", "e", "n", "t", "a", "t", "i", "o", "n", "s", ":", "U", "B", "a", "t", "h", "2", "0", "0", "4", "-", "0", "5", "-", "1", "9">>,
    \* tag:blogger.com,1999:blog-555
    <<"t", "a", "g", ":", "b", "l", "o", "g", "g", "e", "r", ".", "c", "o", "m", ",", "1", "9", "9", "9", ":", "b", "l", "o", "g", "-", "5", "5", "5">>,
    \* tag:yaml.org,2002:int
    <<"t", "a", "g", ":", "y", "a", "m", "l", ".", "o", "r", "g", ",", "2", "0", "0", "2", ":", "i", "n", "t">>,
    \* timothy@hpl.hp.com,2001:web/externalHome
    <<"t", "i", "m", "o", "t", "h", "y", "@", "h", "p", "l", ".", "h", "p", ".", "c", "o", "m", ",", "2", "0", "0", "1", ":", "w", "e", "b", "/", "e", "x", "t", "e", "r", "n", "a", "l", "H", "o", "m", "e">>,
    \* tag:yaml.org::int
    <<"t", "a", "g", ":", "y", "a", "m", "l", ".", "o", "r", "g", ":", ":", "i", "n", "t">>,
    \* tag:yaml.org,20-2:int
    <<"t", "a", "g", ":", "y", "a", "m", "l", ".", "o", "r", "g", ",", "2", "0", "-", "2", ":", "i", "n", "t">>,
    \* tag::int
    <<"t", "a", "g", ":", ":", "i", "n", "t">>,
    \* tag:invalid@@name.com,2002:int
    <<"t", "a", "g", ":", "i", "n", "v", "a", "l", "i", "d", "@", "@", "n", "a", "m", "e", ".", "c", "o", "m", ",", "2", "0", "0", "2", ":", "i", "n", "t">>,
    \* tag:yaml.org,2002:
    <<"t", "a", "g", ":", "y", "a", "m", "l", ".", "o", "r", "g", ",", "2", "0", "0", "2", ":">>,
    \* tag:yaml.org,2002:int:extra
    <<"t", "a", "g", ":", "y", "a", "m", "l", ".", "o", "r", "g", ",", "2", "0", "0", "2", ":", "i", "n", "t", ":", "e", "x", "t", "r", "a">> }

\* the inputs of the example of TagUri.fragment
DocInputs ==
  { \* tag:example.com,2000:
    <<"t", "a", "g", ":", "e", "x", "a", "m", "p", "l", "e", ".", "c", "o", "m", ",", "2", "0", "0", "0", ":">>,
    \* tag:example.com,2000:#
    <<"t", "a", "g", ":", "e", "x", "a", "m", "p", "l", "e", ".", "c", "o", "m", ",", "2", "0", "0", "0", ":", "#">>,
    \* tag:example.com,2000:#abc
    <<"t", "a", "g", ":", "e", "x", "a", "m", "p", "l", "e", ".", "c", "o", "m", ",", "2", "0", "0", "0", ":", "#", "a", "b", "c">> }

\* the inputs of the date-precision examples
ExampleInputs ==
  { \* tag:a.com,2001:x
    <<"t", "a", "g", ":", "a", ".", "c", "o", "m", ",", "2", "0", "0", "1", ":", "x">>,
    \* tag:a.com,2001-09:x
    <<"t", "a", "g", ":", "a", ".", "c", "o", "m", ",", "2", "0", "0", "1", "-", "0", "9", ":", "x">>,
    \* tag:a.com,2001-09-15:x
    <<"t", "a", "g", ":", "a", ".", "c", "o", "m", ",", "2", "0", "0", "1", "-", "0", "9", "-", "1", "5", ":", "x">> }

\* inputs that are not trimmed: whitespace before or after
PadChars == {" ", "\t", "\n"}

PaddedInputs ==
  {l \o c \o r :
     c \in TestInputs \cup DocInputs \cup ExampleInputs \cup {<<>>},
     l \in Words(PadChars, MaxPad),
     r \in Words(PadChars, MaxPad)}

\* inputs that break the grammar in several places at once: a prefix, an
\* authority name, a comma or none, a date, a specific and what follows it,
\* each valid or not
OrderPrefixes == {<<"t", "a", "g", ":">>, <<"t", "o", "g", ":">>}

OrderAuthorities ==
  {<<"a", "b">>, <<"a", "@", "a", "b">>, <<"-", "a">>, <<"a", "@", "-">>, <<"@", "a", "b">>, <<>>}

OrderCommas == {<<",">>, <<>>}

OrderDates == {<<"2", "0", "0", "1">>, <<"2", "0", "-", "2">>, <<>>}

OrderSpecifics == {<<"x">>, <<"%">>, <<>>}

OrderFragments == {<<>>, <<"#">>, <<"#", "f">>, <<"#", "%">>}

OrderInputs ==
  {p \o a \o c \o d \o <<":">> \o sp \o fr :
     p \in OrderPrefixes, a \in OrderAuthorities, c \in OrderCommas,
     d \in OrderDates, sp \in OrderSpecifics, fr \in OrderFragments}

Inputs == AuthInputs \cup DateInputs \cup TailInputs \cup TestInputs
            \cup DocInputs \cup ExampleInputs \cup PaddedInputs
            \cup OrderInputs

\* the TagUriData objects given to the constructor: every shape the type
\* TagUriData allows, with an absent, an empty and a non-empty fragment
ConstructData ==
  [authorityName :
     {[dnsName |-> Some(<<"a", "b">>), emailAddress |-> Null],
      [dnsName |-> Null, emailAddress |-> Some(<<"a", "@", "a", "b">>)]},
   date :
     {[year |-> <<"2", "0", "0", "1">>, month |-> Null, day |-> Null],
      [year |-> <<"2", "0", "0", "1">>, month |-> Some(<<"0", "9">>),
       day |-> Null],
      [year |-> <<"2", "0", "0", "1">>, month |-> Some(<<"0", "9">>),
       day |-> Some(<<"1", "5">>)]},
   specific : {<<>>, <<"x">>},
   fragment : {Null, Some(<<>>), Some(<<"f">>)}]

----------------------------------------------------------------------------
(* The state machine: a caller obtains one TagUri, by TagUri.parse or by   *)
(* the constructor, and then calls get() and reads the accessors.  The     *)
(* TagUriData objects live in heap, a sequence indexed by their addresses; *)
(* a TagUri holds the address of its data object, as the constructor       *)
(* stores the reference it is given and makes no copy.                     *)

\* what a caller sees of a thrown exception
Thrown(r) == Some([name |-> r.name, where |-> r.where, input |-> r.input])

\* static parse(input): new TagUri(TagUriParser.parse(input))
TagUri_parse(in) == TagUriParser_parse(in)

\* every accessor of an instance, as the tests read them
Accessors(data) ==
  [taggingEntity |-> taggingEntity(data),
   authorityName |-> authorityName(data),
   dnsName |-> dnsName(data),
   emailAddress |-> emailAddress(data),
   date |-> date(data),
   year |-> year(data),
   month |-> month(data),
   day |-> day(data),
   specific |-> specific(data),
   fragment |-> fragment(data)]

\* this[internal] of the caller's TagUri: the object it refers to, as it is
\* now
This == heap[Val(internal)]

Init ==
  /\ pc = "idle"
  /\ input = Null
  /\ heap = <<>>
  /\ internal = Null
  /\ error = Null
  /\ str = Null
  /\ acc = Null
  /\ other = Null
  /\ held = {}
  /\ prim = Null

\* TagUri.parse(s), for an input s: the data object is the parser's, and the
\* caller gets the TagUri only
Parse ==
  /\ pc = "idle"
  /\ \E s \in Inputs :
       /\ input' = Some(s)
       /\ LET r == TagUri_parse(s)
          IN  IF r.ok
                THEN /\ heap' = Append(heap, r.value)
                     /\ internal' = Some(Len(heap) + 1)
                     /\ error' = Null
                     /\ pc' = "built"
                ELSE /\ heap' = heap
                     /\ internal' = Null
                     /\ error' = Thrown(r)
                     /\ pc' = "failed"
  /\ UNCHANGED <<str, acc, other, held, prim>>

\* const d = data; new TagUri(d), for a TagUriData object data: the caller
\* keeps d, and this[internal] is d itself
Construct ==
  /\ pc = "idle"
  /\ \E data \in ConstructData :
       /\ heap' = Append(heap, data)
       /\ held' = held \cup {Len(heap) + 1}
       /\ internal' = Some(Len(heap) + 1)
       /\ pc' = "built"
  /\ UNCHANGED <<input, error, str, acc, other, prim>>

\* tag.get()
Get ==
  /\ pc = "built"
  /\ str = Null
  /\ error = Null
  /\ LET r == get(This)
     IN  IF r.ok
           THEN /\ str' = Some(r.value)
                /\ error' = Null
           ELSE /\ str' = Null
                /\ error' = Thrown(r)
  /\ UNCHANGED <<pc, input, heap, internal, acc, other, held, prim>>

\* tag.taggingEntity, tag.authorityName, ..., tag.fragment
Read ==
  /\ pc = "built"
  /\ acc = Null
  /\ acc' = Some(Accessors(This))
  /\ UNCHANGED <<pc, input, heap, internal, error, str, other, held, prim>>

\* TagUri.parse(tag.get()), for the string that get() returned for a parsed
\* tag: a second TagUri, or an exception
Reparse ==
  /\ pc = "built"
  /\ input # Null
  /\ str # Null
  /\ LET r == TagUri_parse(Val(str))
     IN  IF r.ok
           THEN /\ heap' = Append(heap, r.value)
                /\ other' = Some(Len(heap) + 1)
                /\ error' = Null
           ELSE /\ heap' = heap
                /\ other' = Null
                /\ error' = Thrown(r)
  /\ pc' = "again"
  /\ UNCHANGED <<input, internal, str, acc, held, prim>>

Next ==
  \/ Parse
  \/ Construct
  \/ Get
  \/ Read
  \/ Reparse

Spec == Init /\ [][Next]_vars

----------------------------------------------------------------------------
(* What else a caller can do with a TagUri and with the data objects it    *)
(* holds: write to a field of an object, copy an object, construct a       *)
(* second TagUri, and call the primitive-coercion hook.                    *)

\* the data objects of a run
MaxObjects == 2

\* the values a caller writes
WrittenSpecifics == {<<"y">>}

WrittenFragments == {Null}

\* d.specific = v or d.fragment = v, for an object d the caller holds
Write ==
  /\ pc = "built"
  /\ \E a \in held :
       \/ \E v \in WrittenSpecifics :
            /\ heap[a].specific # v
            /\ heap' = [heap EXCEPT ![a].specific = v]
       \/ \E v \in WrittenFragments :
            /\ heap[a].fragment # v
            /\ heap' = [heap EXCEPT ![a].fragment = v]
  /\ UNCHANGED <<pc, input, internal, error, str, acc, other, held, prim>>

\* const e = {...d}, for an object d the caller holds: a new object with
\* the fields of d
Copy ==
  /\ pc = "built"
  /\ Len(heap) < MaxObjects
  /\ \E a \in held :
       /\ heap' = Append(heap, heap[a])
       /\ held' = held \cup {Len(heap) + 1}
  /\ UNCHANGED <<pc, input, internal, error, str, acc, other, prim>>

\* new TagUri(d), a second TagUri, for an object d the caller holds:
\* this[internal] is d itself
ConstructAgain ==
  /\ pc = "built"
  /\ other = Null
  /\ \E a \in held : other' = Some(a)
  /\ UNCHANGED <<pc, input, heap, internal, error, str, acc, held, prim>>

\* what a call of tag[Symbol.toPrimitive](hint) gives the caller: an
\* exception, a string, or a reference to an object
Raised(name) == [ok |-> FALSE, name |-> name, string |-> Null, ref |-> Null]

Returned(string, ref) ==
  [ok |-> TRUE, name |-> "", string |-> string, ref |-> ref]

\* tag[Symbol.toPrimitive](hint): the hint "default" returns this[internal]
\* itself, which the caller then holds
ToPrimitive ==
  /\ pc = "built"
  /\ prim = Null
  /\ \E hint \in {"number", "string", "default"} :
       IF hint = "number"
         THEN /\ prim' = Some(Raised("TypeError"))
              /\ held' = held
       ELSE IF hint = "string"
         THEN /\ LET r == get(This)
                 IN  prim' = Some(IF r.ok THEN Returned(Some(r.value), Null)
                                  ELSE Raised(r.name))
              /\ held' = held
       ELSE /\ prim' = Some(Returned(Null, internal))
            /\ held' = held \cup {Val(internal)}
  /\ UNCHANGED <<pc, input, heap, internal, error, str, acc, other>>

OwnNext ==
  \/ Parse
  \/ Construct
  \/ Get
  \/ Read
  \/ Write
  \/ Copy
  \/ ConstructAgain
  \/ ToPrimitive

OwnSpec == Init /\ [][OwnNext]_vars

----------------------------------------------------------------------------
(* What the properties below say about an input, computed from the input   *)
(* string alone.                                                           *)

\* the position of the first c in s at or after position lo, 0 if none
RECURSIVE FirstAt(_, _, _)
FirstAt(s, c, lo) ==
  IF lo > Len(s) THEN 0
  ELSE IF s[lo] = c THEN lo
  ELSE FirstAt(s, c, lo + 1)

\* the position of the last c in s[lo..hi], 0 if none
RECURSIVE LastAt(_, _, _, _)
LastAt(s, c, lo, hi) ==
  IF hi < lo THEN 0
  ELSE IF s[hi] = c THEN hi
  ELSE LastAt(s, c, lo, hi - 1)

\* what String.prototype.trim removes
Blank == {" ", "\t", "\n", "\r", "\f"}

\* s is "tag:" + entity + ":" + tail without whitespace, and entity holds a
\* comma: s has the parts below
HasParts(s) ==
  /\ Len(s) >= 5
  /\ SubSeq(s, 1, 4) = <<"t", "a", "g", ":">>
  /\ \A k \in 1..Len(s) : s[k] \notin Blank
  /\ FirstAt(s, ":", 5) # 0
  /\ LastAt(s, ",", 5, FirstAt(s, ":", 5) - 1) # 0

\* the tagging entity: from "tag:" to the next colon
EntityOf(s) == SubSeq(s, 5, FirstAt(s, ":", 5) - 1)

\* the authority name: the tagging entity up to its last comma
AuthorityOf(s) == SubSeq(s, 5, LastAt(s, ",", 5, FirstAt(s, ":", 5) - 1) - 1)

\* the date: the tagging entity after its last comma
DateOf(s) ==
  SubSeq(s, LastAt(s, ",", 5, FirstAt(s, ":", 5) - 1) + 1,
         FirstAt(s, ":", 5) - 1)

\* what follows the colon that ends the tagging entity
TailOf(s) == SubSeq(s, FirstAt(s, ":", 5) + 1, Len(s))

\* a parsed instance on which get() has returned
ParsedAndGot == pc = "built" /\ input # Null /\ str # Null

\* a parsed instance whose accessors have been read
ParsedAndRead == pc = "built" /\ input # Null /\ acc # Null

----------------------------------------------------------------------------
(* C1: round trip.  For every input s that TagUri.parse accepts,           *)
(* TagUri.parse(s).get() returns exactly s, also when s carries a '#' with *)
(* an empty fragment after it.                                             *)
C1_RoundTrip == ParsedAndGot => Val(str) = Val(input)

(* C2: fragment distinction.  The fragment of a parsed tag URI is null     *)
(* when the input holds no '#', the empty string when the input ends with  *)
(* a bare '#', and f when the input ends with '#' and a non-empty f: it is *)
(* what follows the first '#', and null only without a '#'.                *)
C2_FragmentDistinction ==
  ParsedAndRead =>
    LET s == Val(input)
        h == FirstAt(s, "#", 1)
    IN  Val(acc).fragment =
          IF h = 0 THEN Null ELSE Some(SubSeq(s, h + 1, Len(s)))

(* C3: canonicalization.  For every TagUri, parsed or constructed, get()   *)
(* returns "tag:" + taggingEntity + ":" + specific, followed by '#' +      *)
(* fragment if and only if fragment is not null; an empty fragment gives a *)
(* string that ends with a bare '#'.                                       *)
C3_Canonical ==
  (pc = "built" /\ str # Null /\ acc # Null) =>
    /\ Val(acc).taggingEntity.ok
    /\ Val(str) =
         <<"t", "a", "g", ":">> \o Val(acc).taggingEntity.value \o <<":">>
           \o Val(acc).specific
           \o (IF Val(acc).fragment # Null
                 THEN <<"#">> \o Val(Val(acc).fragment)
               ELSE <<>>)

----------------------------------------------------------------------------
(* The grammar the properties name: a DNS name is one or more labels       *)
(* joined by '.', a label a non-empty string of letters and digits with    *)
(* hyphens in its interior only; a local part is a non-empty string of     *)
(* letters, digits, '-', '.', '_'; a date is YYYY, YYYY-MM or YYYY-MM-DD.  *)

IsLabel(s) ==
  /\ Len(s) >= 1
  /\ s[1] \in AlphaNum
  /\ s[Len(s)] \in AlphaNum
  /\ \A k \in 1..Len(s) : s[k] \in AlphaNum \cup {"-"}

RECURSIVE IsDnsName(_)
IsDnsName(s) ==
  LET dot == FirstAt(s, ".", 1)
  IN  IF dot = 0 THEN IsLabel(s)
      ELSE /\ IsLabel(SubSeq(s, 1, dot - 1))
           /\ IsDnsName(SubSeq(s, dot + 1, Len(s)))

IsLocalPart(s) ==
  /\ Len(s) >= 1
  /\ \A k \in 1..Len(s) : s[k] \in AlphaNum \cup {"-", ".", "_"}

IsAuthorityName(s) ==
  LET at == FirstAt(s, "@", 1)
  IN  IF at = 0 THEN IsDnsName(s)
      ELSE /\ IsLocalPart(SubSeq(s, 1, at - 1))
           /\ IsDnsName(SubSeq(s, at + 1, Len(s)))

IsDate(s) ==
  /\ Len(s) \in {4, 7, 10}
  /\ \A k \in 1..Len(s) : IF k \in {5, 8} THEN s[k] = "-" ELSE s[k] \in Digit

\* a segment: a non-empty string of letters and digits
IsSegment(s) == Len(s) >= 1 /\ \A k \in 1..Len(s) : s[k] \in AlphaNum

\* s is "tag:" + entity + ":" + segment + ":" + segment
HasExtraComponent(s) ==
  /\ HasParts(s)
  /\ LET t == TailOf(s)
         c == FirstAt(t, ":", 1)
     IN  /\ c # 0
         /\ IsSegment(SubSeq(t, 1, c - 1))
         /\ IsSegment(SubSeq(t, c + 1, Len(t)))

\* the call of TagUri.parse has failed with this kind and offending segment
FailedWith(where, seg) ==
  /\ pc = "failed"
  /\ Val(error).name = "TagUriParsingError"
  /\ Val(error).where = where
  /\ Val(error).input = seg

\* TagUri.parse has been called and has returned or thrown
Called == pc \in {"built", "failed"} /\ input # Null

C5_EmptySpecific ==
  (/\ Called
   /\ HasParts(Val(input))
   /\ TailOf(Val(input)) = <<>>
   /\ IsAuthorityName(AuthorityOf(Val(input)))
   /\ IsDate(DateOf(Val(input))))
  => /\ pc = "built"
     /\ specific(This) = <<>>
     /\ fragment(This) = Null

(* C6: dnsName grammar.  An authority name without '@' is accepted as a    *)
(* DNS name exactly when it is one or more labels joined by '.', each a    *)
(* non-empty string of letters and digits with hyphens in the interior     *)
(* only; a label of one character is valid.                                *)
C6_DnsNameGrammar ==
  (/\ Called
   /\ HasParts(Val(input))
   /\ ~Includes(AuthorityOf(Val(input)), "@")
   /\ IsDate(DateOf(Val(input)))
   /\ specificRegex(TailOf(Val(input))))
  => (IsDnsName(AuthorityOf(Val(input)))
        <=> /\ pc = "built"
            /\ dnsName(This) = Some(AuthorityOf(Val(input))))

(* C7: authority classification.  For every TagUri returned by parse,      *)
(* exactly one of dnsName and emailAddress is not null, it is a non-empty  *)
(* string equal to the authority name of the input, and it is emailAddress *)
(* if and only if that authority name holds '@'; the authorityName         *)
(* accessor returns that string and get() and the accessors never raise    *)
(* UnreachableError.                                                       *)
C7_AuthorityClassification ==
  (pc = "built" /\ input # Null) =>
    LET a == AuthorityOf(Val(input))
        d == This
    IN  /\ a # <<>>
        /\ IF Includes(a, "@")
             THEN dnsName(d) = Null /\ emailAddress(d) = Some(a)
           ELSE dnsName(d) = Some(a) /\ emailAddress(d) = Null
        /\ error = Null
        /\ acc # Null =>
             /\ Val(acc).authorityName.ok
             /\ Val(acc).authorityName.value = a
             /\ Val(acc).dnsName = dnsName(d)
             /\ Val(acc).emailAddress = emailAddress(d)

C7_Witness ==
  /\ ParsedAndRead
  /\ str # Null
  /\ Val(acc).emailAddress = Some(<<"a", "@", "a", "b">>)
  /\ Val(acc).authorityName.value = <<"a", "@", "a", "b">>

(* C8: date precision.  For every TagUri returned by parse, year is four   *)
(* digits, month is null or two digits, day is null or two digits, a day   *)
(* comes only with a month, and the date accessor returns year, year-month *)
(* or year-month-day by the fields that are not null, which is the date of *)
(* the input, character for character.                                     *)
C8_DatePrecision ==
  ParsedAndRead =>
    LET a == Val(acc)
        TwoDigits(x) == Len(Val(x)) = 2 /\ \A k \in 1..2 : Val(x)[k] \in Digit
    IN  /\ Len(a.year) = 4
        /\ \A k \in 1..4 : a.year[k] \in Digit
        /\ a.month = Null \/ TwoDigits(a.month)
        /\ a.day = Null \/ TwoDigits(a.day)
        /\ a.day # Null => a.month # Null
        /\ a.date = IF a.day # Null
                      THEN a.year \o <<"-">> \o Val(a.month) \o <<"-">>
                             \o Val(a.day)
                    ELSE IF a.month # Null
                      THEN a.year \o <<"-">> \o Val(a.month)
                    ELSE a.year
        /\ a.date = DateOf(Val(input))

C8_Witness ==
  /\ ParsedAndRead
  /\ Val(acc).year = <<"0", "0", "0", "0">>
  /\ Val(acc).month = Some(<<"0", "0">>)
  /\ Val(acc).day = Some(<<"0", "0">>)
  /\ Val(acc).date = <<"0", "0", "0", "0", "-", "0", "0", "-", "0", "0">>

\* the authority name of s holds '@', with a local part before the first '@'
HasEmailAuthority(s) ==
  /\ HasParts(s)
  /\ Includes(AuthorityOf(s), "@")
  /\ IsLocalPart(SubSeq(AuthorityOf(s), 1, FirstAt(AuthorityOf(s), "@", 1) - 1))

\* what follows the first '@' of the authority name
DomainOf(s) ==
  SubSeq(AuthorityOf(s), FirstAt(AuthorityOf(s), "@", 1) + 1,
         Len(AuthorityOf(s)))

(* C9, as claimed: when the authority name holds '@', with a valid local   *)
(* part before the first '@' and after it a part that is no DNS name,      *)
(* parse fails with kind emailAddress and that part as the offending       *)
(* segment.                                                                *)
C9_DomainReported ==
  (/\ Called
   /\ HasEmailAuthority(Val(input))
   /\ ~IsDnsName(DomainOf(Val(input))))
  => FailedWith("emailAddress", DomainOf(Val(input)))

(* C9, amended: the same when the part after the first '@' is not empty;   *)
(* with nothing after the '@' the offending segment is the whole authority *)
(* name.                                                                   *)
C9_NonEmptyDomainReported ==
  (/\ Called
   /\ HasEmailAuthority(Val(input))
   /\ ~IsDnsName(DomainOf(Val(input))))
  => IF DomainOf(Val(input)) # <<>>
       THEN FailedWith("emailAddress", DomainOf(Val(input)))
     ELSE FailedWith("emailAddress", AuthorityOf(Val(input)))

C9_Witness ==
  /\ input = Some(<<"t", "a", "g", ":", "i", "n", "v", "a", "l", "i", "d",
                    "@", "@", "n", "a", "m", "e", ".", "c", "o", "m", ",",
                    "2", "0", "0", "2", ":", "i", "n", "t">>)
  /\ FailedWith("emailAddress",
                <<"@", "n", "a", "m", "e", ".", "c", "o", "m">>)

\* s has leading or trailing whitespace
Untrimmed(s) == Len(s) >= 1 /\ (s[1] \in Blank \/ s[Len(s)] \in Blank)

(* C10: untrimmed input.  Every input with leading or trailing whitespace  *)
(* is rejected at the top-level step, with kind tagUri and the whole       *)
(* untrimmed input as the offending segment.                               *)
C10_UntrimmedRejected ==
  (Called /\ Untrimmed(Val(input))) => FailedWith("tagUri", Val(input))

C10_Witness ==
  /\ input = Some(<<"t", "a", "g", ":", "y", "a", "m", "l", ".", "o", "r",
                    "g", ",", "2", "0", "0", "2", ":", "i", "n", "t", "\n">>)
  /\ FailedWith("tagUri", Val(input))

(* C11: idempotence.  For every input s that TagUri.parse accepts, the     *)
(* string TagUri.parse(s).get() is accepted by TagUri.parse as well, and   *)
(* the TagUri it yields equals the first one: equals returns true.         *)
C11_Idempotent ==
  pc = "again" =>
    /\ error = Null
    /\ other # Null
    /\ TagUri_equals(This, heap[Val(other)])

\* the case of a bare '#': get() has not returned the input, and its result
\* has been parsed again
C11_Witness ==
  /\ pc = "again"
  /\ input = Some(<<"t", "a", "g", ":", "e", "x", "a", "m", "p", "l", "e",
                    ".", "c", "o", "m", ",", "2", "0", "0", "0", ":", "#">>)
  /\ str = Some(<<"t", "a", "g", ":", "e", "x", "a", "m", "p", "l", "e",
                  ".", "c", "o", "m", ",", "2", "0", "0", "0", ":">>)
  /\ other # Null

(* C12: immutability and exclusive ownership.  Once a TagUri has been      *)
(* constructed from a data object d, nothing the caller does afterwards    *)
(* (writing to a field of d, constructing a second TagUri from d, calling  *)
(* the primitive-coercion hook) changes what get() and the accessors       *)
(* return: get() returns what it has returned before, and so does every    *)
(* accessor; and a second TagUri never has the data object of the first.   *)
C12_ImmutableAndOwned ==
  (pc = "built" /\ input = Null) =>
    /\ str # Null => get(This) = Return(Val(str))
    /\ acc # Null => Accessors(This) = Val(acc)
    /\ other # Null => Val(other) # Val(internal)

\* s is "tag:" + entity + ":" + tail without whitespace
HasTopLevel(s) ==
  /\ Len(s) >= 5
  /\ SubSeq(s, 1, 4) = <<"t", "a", "g", ":">>
  /\ \A k \in 1..Len(s) : s[k] \notin Blank
  /\ FirstAt(s, ":", 5) # 0

\* the specific: the tail up to its first '#'
SpecificOf(s) ==
  LET t == TailOf(s)
      h == FirstAt(t, "#", 1)
  IN  IF h = 0 THEN t ELSE SubSeq(t, 1, h - 1)

\* the fragment: what follows the first '#' of the tail, empty without a '#'
FragmentOf(s) ==
  LET t == TailOf(s)
      h == FirstAt(t, "#", 1)
  IN  IF h = 0 THEN <<>> ELSE SubSeq(t, h + 1, Len(t))

\* the steps of the order that fail on their part of the input s, for an s
\* that has its parts
AuthorityFails(s) == ~parseAuthorityName(AuthorityOf(s)).ok

DateFails(s) == ~parseDate(DateOf(s)).ok

SpecificFails(s) == ~parseSpecific(SpecificOf(s)).ok

FragmentFails(s) == ~parseFragment(FragmentOf(s)).ok

(* C13: strict validation order.  The steps are ordered: top-level match,  *)
(* split of the tagging entity at a comma, authority name, date, specific, *)
(* fragment.  For every input, parse fails exactly when some step fails on *)
(* its part of the input, and the error it raises is the one of the        *)
(* earliest such step, with that step's kind and offending segment,        *)
(* whatever the later parts hold; and a failed call returns no object.     *)
C13_EarliestStep ==
  Called =>
    LET s == Val(input)
    IN  /\ IF ~HasTopLevel(s)
             THEN FailedWith("tagUri", s)
           ELSE IF ~HasParts(s)
             THEN FailedWith("taggingEntity", EntityOf(s))
           ELSE IF AuthorityFails(s)
             THEN /\ pc = "failed"
                  /\ error = Thrown(parseAuthorityName(AuthorityOf(s)))
                  /\ Val(error).where =
                       IF Includes(AuthorityOf(s), "@") THEN "emailAddress"
                       ELSE "dnsName"
           ELSE IF DateFails(s)
             THEN FailedWith("date", DateOf(s))
           ELSE IF SpecificFails(s)
             THEN FailedWith("specific", SpecificOf(s))
           ELSE IF FragmentFails(s)
             THEN FailedWith("fragment", FragmentOf(s))
           ELSE pc = "built" /\ error = Null
        /\ pc = "failed" => internal = Null /\ heap = <<>>

\* an invalid email address, an invalid date, an invalid specific and an
\* invalid fragment at once: the email address is reported
C13_Witness ==
  /\ input = Some(<<"t", "a", "g", ":", "a", "@", "-", ",", "2", "0", "-",
                    "2", ":", "%", "#", "%">>)
  /\ AuthorityFails(Val(input))
  /\ DateFails(Val(input))
  /\ SpecificFails(Val(input))
  /\ FragmentFails(Val(input))
  /\ FailedWith("emailAddress", <<"-">>)

\* seg is a contiguous substring of s
IsSubstring(seg, s) ==
  \E i \in 1..(Len(s) + 1) :
    /\ i + Len(seg) - 1 <= Len(s)
    /\ SubSeq(s, i, i + Len(seg) - 1) = seg

\* the kinds of error the parser raises
ProducedKinds ==
  {"tagUri", "taggingEntity", "dnsName", "emailAddress", "date", "specific",
   "fragment"}

(* C14: error payload.  For every input that parse rejects, the error is a *)
(* TagUriParsingError whose offending segment is a contiguous substring of *)
(* the input, the whole input for the kind tagUri, and whose kind is one   *)
(* of tagUri, taggingEntity, dnsName, emailAddress, date, specific and     *)
(* fragment: never authorityName, year, month, day or dnsComp.             *)
C14_ErrorPayload ==
  pc = "failed" =>
    /\ error # Null
    /\ Val(error).name = "TagUriParsingError"
    /\ Val(error).where \in ProducedKinds
    /\ Val(error).where
         \notin {"authorityName", "year", "month", "day", "dnsComp"}
    /\ IsSubstring(Val(error).input, Val(input))
    /\ Val(error).where = "tagUri" => Val(error).input = Val(input)

\* a rejected date: the segment is a proper substring of the input
C14_Witness ==
  /\ input = Some(<<"t", "a", "g", ":", "y", "a", "m", "l", ".", "o", "r",
                    "g", ",", "2", "0", "-", "2", ":", "i", "n", "t">>)
  /\ FailedWith("date", <<"2", "0", "-", "2">>)
  /\ IsSubstring(Val(error).input, Val(input))
  /\ Val(error).input # Val(input)

====
